---- MODULE Spec2Model ----
(***************************************************************************)
(* A model of simulator.py, the X "For You" feed scoring simulator:        *)
(* the weighted scorer, the video duration bonus, the author diversity     *)
(* decay and the ranking pipeline that combines them.                      *)
(*                                                                         *)
(* Python floats are modelled as exact rationals [n |-> numerator,         *)
(* d |-> denominator > 0] in lowest terms, so that equal values are equal  *)
(* records. An Optional[float] is a sequence: <<>> is None, <<x>> is x.    *)
(* Post.text and Post.is_in_network are left out: no scoring function      *)
(* reads them.                                                             *)
(***************************************************************************)
EXTENDS Integers, Sequences, FiniteSets

VARIABLES
    ACTION_WEIGHTS,     \* the module-level weight table (lines 24-41)
    rng,                \* state of the module-level random generator
    posts,              \* rank_posts: the posts argument
    user_following,     \* rank_posts: the user_following argument
    predicted,          \* rank_posts: what the predictor returned, by post id
    scored_posts,       \* rank_posts: scored_posts after the sort of line 204
    final_results,      \* rank_posts: the returned list
    called,             \* rank_posts has returned at least once
    rng0,               \* the generator's state when the last rank_posts began
    replayed,           \* the last rank_posts began in the state the one before began in
    author_counts,      \* apply_author_diversity_decay: its counter at return
    posts_with_scores,  \* apply_author_diversity_decay: the argument
    decay_factor,       \* apply_author_diversity_decay: the argument
    adjusted_results,   \* apply_author_diversity_decay: the returned list
    decay_status,       \* "idle" | "returned" | "raised"
    post,               \* video_quality_bonus: the argument
    bonus,              \* video_quality_bonus: the returned value
    bonus_status,       \* "idle" | "returned" | "raised"
    predictions,        \* compute_weighted_score: the argument
    score,              \* compute_weighted_score: the returned value
    score_status        \* "idle" | "returned" | "raised"

pipeVars  == <<rng, posts, user_following, predicted, scored_posts, final_results,
               called, rng0, replayed>>
decayVars == <<posts_with_scores, decay_factor, adjusted_results, decay_status>>
videoVars == <<post, bonus, bonus_status>>
scoreVars == <<predictions, score, score_status>>
vars == <<ACTION_WEIGHTS, author_counts, pipeVars, decayVars, videoVars, scoreVars>>

----------------------------------------------------------------------------
(* Exact rational arithmetic, standing for Python's float arithmetic.      *)

Abs(x) == IF x < 0 THEN -x ELSE x

RECURSIVE GCD(_, _)
GCD(a, b) == IF b = 0 THEN a ELSE GCD(b, a % b)

Rat(n, d) ==
    LET g == GCD(Abs(n), d)
    IN  [n |-> n \div g, d |-> d \div g]

Zero == Rat(0, 1)
One  == Rat(1, 1)

LCM(a, b) == (a \div GCD(a, b)) * b

Add(x, y) ==
    LET l == LCM(x.d, y.d)
    IN  Rat(x.n * (l \div x.d) + y.n * (l \div y.d), l)

Sub(x, y) ==
    LET l == LCM(x.d, y.d)
    IN  Rat(x.n * (l \div x.d) - y.n * (l \div y.d), l)

Mul(x, y) == Rat(x.n * y.n, x.d * y.d)

Less(x, y) ==
    LET l == LCM(x.d, y.d)
    IN  x.n * (l \div x.d) < y.n * (l \div y.d)

Leq(x, y) == Less(x, y) \/ x = y

RatMin(x, y) == IF Less(y, x) THEN y ELSE x
RatMax(x, y) == IF Less(x, y) THEN y ELSE x

\* x ** k for an integer k >= 0, as Python computes it (x ** 0 is 1.0, also for 0.0)
RECURSIVE Pow(_, _)
Pow(x, k) == IF k = 0 THEN One ELSE Mul(x, Pow(x, k - 1))

None == <<>>
Some(x) == <<x>>

----------------------------------------------------------------------------
(* video_quality_bonus (lines 156-176)                                     *)

\* a plausible bug: the optimal band taken without its lower end
video_quality_bonus_open(p) ==
    IF ~p.has_video \/ p.video_duration_sec = None
    THEN Zero
    ELSE LET duration == p.video_duration_sec[1]
         IN  IF Less(Rat(15, 1), duration) /\ Leq(duration, Rat(60, 1))
             THEN Rat(5, 10)
             ELSE IF \/ Leq(Rat(5, 1), duration) /\ Less(duration, Rat(15, 1))
                     \/ Less(Rat(60, 1), duration) /\ Leq(duration, Rat(180, 1))
                  THEN Rat(3, 10)
                  ELSE Rat(1, 10)

video_quality_bonus(p) ==
    IF ~p.has_video \/ p.video_duration_sec = None
    THEN Zero
    ELSE LET duration == p.video_duration_sec[1]
         IN  IF Leq(Rat(15, 1), duration) /\ Leq(duration, Rat(60, 1))
             THEN Rat(5, 10)
             ELSE IF \/ Leq(Rat(5, 1), duration) /\ Less(duration, Rat(15, 1))
                     \/ Less(Rat(60, 1), duration) /\ Leq(duration, Rat(180, 1))
                  THEN Rat(3, 10)
                  ELSE Rat(1, 10)

----------------------------------------------------------------------------
(* ACTION_WEIGHTS (lines 24-41) and compute_weighted_score (lines 113-125) *)

\* the fields of the EngagementPredictions dataclass (lines 56-72)
ActionKinds ==
    {"favorite", "reply", "repost", "quote", "click", "profile_click",
     "video_view", "photo_expand", "share", "dwell", "follow_author",
     "not_interested", "block_author", "mute_author", "report"}

\* the table as the source file sets it
ShippedWeights ==
    [a \in ActionKinds |->
        CASE a = "favorite"       -> Rat(10, 10)
          [] a = "reply"          -> Rat(20, 10)
          [] a = "repost"         -> Rat(15, 10)
          [] a = "quote"          -> Rat(25, 10)
          [] a = "click"          -> Rat(5, 10)
          [] a = "profile_click"  -> Rat(3, 10)
          [] a = "video_view"     -> Rat(8, 10)
          [] a = "photo_expand"   -> Rat(3, 10)
          [] a = "share"          -> Rat(15, 10)
          [] a = "dwell"          -> Rat(2, 10)
          [] a = "follow_author"  -> Rat(30, 10)
          [] a = "not_interested" -> Rat(-50, 10)
          [] a = "block_author"   -> Rat(-100, 10)
          [] a = "mute_author"    -> Rat(-80, 10)
          [] a = "report"         -> Rat(-150, 10)]

\* EngagementPredictions(): every field at its default 0.0 (lines 58-72)
DefaultPredictions == [a \in ActionKinds |-> Zero]

\* the keys of ACTION_WEIGHTS in the order the source file writes them, the
\* order .items() yields them in
ActionOrder ==
    <<"favorite", "reply", "repost", "quote", "click", "profile_click",
      "video_view", "photo_expand", "share", "dwell", "follow_author",
      "not_interested", "block_author", "mute_author", "report">>

\* the sum of terms[lo .. hi]; exact addition is associative, so the terms
\* are added pairwise rather than left to right
RECURSIVE SumRange(_, _, _)
SumRange(terms, lo, hi) ==
    IF lo > hi THEN Zero
    ELSE IF lo = hi THEN terms[lo]
    ELSE Add(SumRange(terms, lo, (lo + hi) \div 2),
             SumRange(terms, (lo + hi) \div 2 + 1, hi))

\* the loop of lines 122-124: weight * probability, summed over the keys of
\* the table
WeightedSum(weights, preds) ==
    LET keys  == SelectSeq(ActionOrder, LAMBDA a : a \in DOMAIN weights)
        terms == [i \in 1..Len(keys) |-> Mul(weights[keys[i]], preds[keys[i]])]
    IN  SumRange(terms, 1, Len(keys))

\* getattr(predictions, action) raises AttributeError for a key of the table
\* that is no field of the dataclass; a field the table has no key for is
\* never looked at.
compute_weighted_score(preds) ==
    IF DOMAIN ACTION_WEIGHTS \subseteq DOMAIN preds
    THEN [raised |-> FALSE,
          value  |-> WeightedSum(ACTION_WEIGHTS, preds)]
    ELSE [raised |-> TRUE, value |-> Zero]

----------------------------------------------------------------------------
(* The random module (line 19) and simulate_phoenix_predictions            *)
(* (lines 75-110).                                                         *)
(* The generator is deterministic: its state decides every later draw.     *)
(* The model keeps that and shrinks the state to a ring of RingLen         *)
(* numbers in 0 .. URes-1: a draw of random() returns head/URes, a value   *)
(* of [0, 1), and turns the ring by one.  random.seed(n) sets the ring to  *)
(* the digits of n in base URes.                                           *)

RingLen == 4
URes    == 2

\* the seeds a caller passes to random.seed
Seeds == {0, 1}

RECURSIVE IntPow(_, _)
IntPow(b, k) == IF k = 0 THEN 1 ELSE b * IntPow(b, k - 1)

SeedState(n) == [i \in 1..RingLen |-> (n \div IntPow(URes, i - 1)) % URes]

\* the value random() returns at the i-th draw (i = 0, 1, ...) from state r
Random(r, i) == Rat(r[(i % Len(r)) + 1], URes)

\* the state after k draws
Advance(r, k) == [i \in 1..Len(r) |-> r[((i - 1 + k) % Len(r)) + 1]]

\* random.uniform(lo, hi) at the i-th draw: lo + (hi - lo) * random()
Uniform(r, i, lo, hi) ==
    Add(lo, Mul(Sub(hi, lo), Random(r, i)))

\* the draws one call makes: base, then one per keyword argument that calls
\* random.uniform, in the order the arguments are written
DrawsPerCall == 14

\* lines 87-110, given the draw of line 85
PredictionsFrom(p, user_follows_author, r, base) ==
    LET cap   == Rat(95, 100)
        floor == Rat(1, 1000)
        network_boost == IF user_follows_author THEN Rat(15, 10) ELSE One
        video_boost   == IF p.has_video THEN Rat(13, 10) ELSE One
        Boosted(k, i, hi) ==
            RatMin(cap, Add(Mul(Mul(base, k), network_boost), Uniform(r, i, Zero, hi)))
        Plain(k, i, hi) ==
            RatMin(cap, Add(Mul(base, k), Uniform(r, i, Zero, hi)))
    IN  [favorite       |-> Boosted(Rat(3, 1), 1, Rat(1, 10)),
         reply          |-> Boosted(Rat(5, 10), 2, Rat(3, 100)),
         repost         |-> Boosted(Rat(8, 10), 3, Rat(5, 100)),
         quote          |-> Boosted(Rat(3, 10), 4, Rat(2, 100)),
         click          |-> Plain(Rat(2, 1), 5, Rat(15, 100)),
         profile_click  |-> Plain(Rat(4, 10), 6, Rat(5, 100)),
         video_view     |-> RatMin(cap, IF p.has_video
                                        THEN Mul(Mul(base, Rat(4, 1)), video_boost)
                                        ELSE Rat(1, 100)),
         photo_expand   |-> Plain(Rat(6, 10), 7, Rat(5, 100)),
         share          |-> Boosted(Rat(4, 10), 8, Rat(3, 100)),
         dwell          |-> Plain(Rat(5, 1), 9, Rat(2, 10)),
         follow_author  |-> RatMin(cap, IF ~user_follows_author
                                        THEN Mul(base, Rat(1, 10))
                                        ELSE Rat(1, 1000)),
         not_interested |-> RatMax(floor, Uniform(r, 10, Zero, Rat(2, 100))),
         block_author   |-> RatMax(floor, Uniform(r, 11, Zero, Rat(5, 1000))),
         mute_author    |-> RatMax(floor, Uniform(r, 12, Zero, Rat(8, 1000))),
         report         |-> RatMax(floor, Uniform(r, 13, Zero, Rat(2, 1000)))]

simulate_phoenix_predictions(p, user_follows_author, r) ==
    [predictions |-> PredictionsFrom(p, user_follows_author, r,
                                     Uniform(r, 0, Rat(1, 100), Rat(5, 100))),
     rng |-> Advance(r, DrawsPerCall)]

----------------------------------------------------------------------------
(* apply_author_diversity_decay (lines 128-153)                            *)

\* a plausible bug: the counter is a mutable default argument or a module
\* global, and a call starts from what the call before it left
StaleAuthorCounts == author_counts

\* line 144: the counter starts empty at every call
FreshAuthorCounts == [a \in {} |-> 0]

\* author_counts.get(author_id, 0) (line 148)
CountOf(counts, author) == IF author \in DOMAIN counts THEN counts[author] ELSE 0

\* a plausible bug: one count shared by all authors
BumpAll(counts, author) ==
    [a \in DOMAIN counts \cup {author} |-> CountOf(counts, a) + 1]

\* author_counts[author_id] = count + 1 (line 150)
Bump(counts, author) ==
    [a \in DOMAIN counts \cup {author} |->
        IF a = author THEN CountOf(counts, author) + 1 ELSE counts[a]]

\* the loop of lines 147-151 from position i on
RECURSIVE DecayLoop(_, _, _, _, _)
DecayLoop(pws, factor, i, counts, acc) ==
    IF i > Len(pws)
    THEN [results |-> acc, counts |-> counts]
    ELSE LET p     == pws[i].post
             count == CountOf(counts, p.author_id)
             adjusted_score == Mul(pws[i].score, Pow(factor, count))
         IN  DecayLoop(pws, factor, i + 1, Bump(counts, p.author_id),
                       Append(acc, [post |-> p, score |-> adjusted_score]))

\* no check of decay_factor is made: every call returns
apply_author_diversity_decay(pws, factor) ==
    DecayLoop(pws, factor, 1, FreshAuthorCounts, <<>>)

\* decay_factor: float = 0.7 (line 130)
DefaultDecayFactor == Rat(7, 10)

----------------------------------------------------------------------------
(* list.sort(key=lambda x: x[1], reverse=True) (lines 204 and 217)         *)
(* Python's sort is stable, also with reverse=True: of two elements with   *)
(* equal keys the one that came first in the list stays first.             *)

\* a plausible bug: an ascending sort followed by reverse(), which turns
\* the order of equal elements around (x goes before its equals)
RECURSIVE InsertDescBeforeTies(_, _)
InsertDescBeforeTies(s, x) ==
    IF Len(s) = 0 THEN <<x>>
    ELSE IF Leq(Head(s).score, x.score) THEN <<x>> \o s
    ELSE <<Head(s)>> \o InsertDescBeforeTies(Tail(s), x)

\* a plausible bug: the list is rebuilt from a mapping keyed by score, in
\* which a later element replaces an earlier one of the same score
RECURSIVE InsertDescKeyed(_, _)
InsertDescKeyed(s, x) ==
    IF Len(s) = 0 THEN <<x>>
    ELSE IF Less(Head(s).score, x.score) THEN <<x>> \o s
    ELSE IF Head(s).score = x.score THEN <<x>> \o Tail(s)
    ELSE <<Head(s)>> \o InsertDescKeyed(Tail(s), x)

\* x goes before the first element with a smaller score
RECURSIVE InsertDesc(_, _)
InsertDesc(s, x) ==
    IF Len(s) = 0 THEN <<x>>
    ELSE IF Less(Head(s).score, x.score) THEN <<x>> \o s
    ELSE <<Head(s)>> \o InsertDesc(Tail(s), x)

RECURSIVE SortDesc(_)
SortDesc(s) ==
    IF Len(s) = 0 THEN <<>>
    ELSE InsertDesc(SortDesc(SubSeq(s, 1, Len(s) - 1)), s[Len(s)])

----------------------------------------------------------------------------
(* rank_posts (lines 179-218)                                              *)

\* lines 195-201 from position i on; r is the generator's state
RECURSIVE ScoreLoop(_, _, _, _, _)
ScoreLoop(ps, following, i, r, acc) ==
    IF i > Len(ps)
    THEN [scored |-> acc, rng |-> r]
    ELSE LET p            == ps[i]
             user_follows == p.author_id \in following
             out          == simulate_phoenix_predictions(p, user_follows, r)
             base_score   == compute_weighted_score(out.predictions).value
             video_bonus  == video_quality_bonus(p)
         IN  ScoreLoop(ps, following, i + 1, out.rng,
                       Append(acc, [post |-> p,
                                    score |-> Add(base_score, video_bonus),
                                    predictions |-> out.predictions]))

\* a plausible bug: the predictions are taken from the list walked backwards
RebuildReversed(adjusted, scored) ==
    [i \in 1..Len(adjusted) |->
        [post |-> adjusted[i].post, score |-> adjusted[i].score,
         predictions |-> scored[Len(adjusted) + 1 - i].predictions]]

\* lines 211-214: the adjusted scores rejoined with the predictions by index
Rebuild(adjusted, scored) ==
    [i \in 1..Len(adjusted) |->
        [post |-> adjusted[i].post, score |-> adjusted[i].score,
         predictions |-> scored[i].predictions]]

rank_posts(ps, following, r) ==
    LET loop   == ScoreLoop(ps, following, 1, r, <<>>)
        sorted == SortDesc(loop.scored)
        pairs  == [i \in 1..Len(sorted) |->
                      [post |-> sorted[i].post, score |-> sorted[i].score]]
        decay  == apply_author_diversity_decay(pairs, DefaultDecayFactor)
    IN  [scored_posts  |-> sorted,
         final_results |-> SortDesc(Rebuild(decay.results, sorted)),
         author_counts |-> decay.counts,
         predicted     |-> [i \in 1..Len(ps) |-> loop.scored[i].predictions],
         rng           |-> loop.rng]

----------------------------------------------------------------------------
(* The ranking pipeline as a state machine: a caller holds one batch of    *)
(* candidate posts and a followed-author set, seeds the generator (as      *)
(* main does at line 273) and ranks the batch, any number of times.        *)

MaxPosts == 3

\* the kinds of post a batch is drawn from
Catalog ==
    {[author_id |-> "alice", has_video |-> TRUE,  video_duration_sec |-> Some(Rat(2, 1))],
     [author_id |-> "bob",   has_video |-> FALSE, video_duration_sec |-> None],
     [author_id |-> "bob",   has_video |-> TRUE,  video_duration_sec |-> Some(Rat(45, 1))]}

Followings == {{}, {"alice"}}

\* a batch: post i has id i
Batches ==
    UNION {[1..n -> Catalog] : n \in 0..MaxPosts}

MakePosts(b) ==
    [i \in 1..Len(b) |->
        [id |-> i, author_id |-> b[i].author_id,
         has_video |-> b[i].has_video,
         video_duration_sec |-> b[i].video_duration_sec]]

\* no call of apply_author_diversity_decay has been made yet
NoCounts == [a \in {} |-> 0]

IdlePost == [id |-> 0, author_id |-> "alice", has_video |-> FALSE,
             video_duration_sec |-> None]

DecayIdle ==
    /\ posts_with_scores = <<>>
    /\ decay_factor = DefaultDecayFactor
    /\ adjusted_results = <<>>
    /\ decay_status = "idle"

VideoIdle ==
    /\ post = IdlePost
    /\ bonus = Zero
    /\ bonus_status = "idle"

ScoreIdle ==
    /\ predictions = DefaultPredictions
    /\ score = Zero
    /\ score_status = "idle"

PipeIdle ==
    /\ rng = SeedState(0)
    /\ posts = <<>>
    /\ user_following = {}
    /\ predicted = <<>>
    /\ scored_posts = <<>>
    /\ final_results = <<>>
    /\ called = FALSE
    /\ rng0 = SeedState(0)
    /\ replayed = FALSE

Init ==
    /\ ACTION_WEIGHTS = ShippedWeights
    /\ author_counts = NoCounts
    /\ \E n \in Seeds : rng = SeedState(n)
    /\ \E b \in Batches : posts = MakePosts(b)
    /\ user_following \in Followings
    /\ predicted = <<>>
    /\ scored_posts = <<>>
    /\ final_results = <<>>
    /\ called = FALSE
    /\ rng0 = rng
    /\ replayed = FALSE
    /\ DecayIdle /\ VideoIdle /\ ScoreIdle

\* random.seed(n) (line 273)
Seed(n) ==
    /\ rng' = SeedState(n)
    /\ UNCHANGED <<ACTION_WEIGHTS, author_counts, posts, user_following, predicted,
                   scored_posts, final_results, called, rng0, replayed,
                   decayVars, videoVars, scoreVars>>

\* results = rank_posts(posts, user_following) (line 274)
RankPosts ==
    \E out \in {rank_posts(posts, user_following, rng)} :
        /\ rng' = out.rng
        /\ predicted' = out.predicted
        /\ scored_posts' = out.scored_posts
        /\ final_results' = out.final_results
        /\ author_counts' = out.author_counts
        /\ called' = TRUE
        /\ rng0' = rng
        /\ replayed' = (called /\ rng = rng0)
        /\ UNCHANGED <<ACTION_WEIGHTS, posts, user_following,
                       decayVars, videoVars, scoreVars>>

Next ==
    \/ \E n \in Seeds : Seed(n)
    \/ RankPosts

Spec == Init /\ [][Next]_vars

----------------------------------------------------------------------------
(* Properties of rank_posts                                                *)

\* where the post p stands in the list s of records with a post field
IndexOf(s, p) == CHOOSE i \in 1..Len(s) : s[i].post = p

\* where the post p stands in the input list
InputIndex(p) == CHOOSE i \in 1..Len(posts) : posts[i] = p

\* C1: the list rank_posts returns is a permutation of its input: the same
\* length, every input post exactly once, nothing else; an empty input gives
\* an empty output.
C1_RankIsPermutation ==
    called =>
        /\ Len(final_results) = Len(posts)
        /\ \A i \in 1..Len(posts) :
              Cardinality({j \in 1..Len(final_results) : final_results[j].post = posts[i]}) = 1
        /\ \A j \in 1..Len(final_results) :
              \E i \in 1..Len(posts) : final_results[j].post = posts[i]

\* a full batch that came back in another order than it went in
C1_Witness ==
    /\ called
    /\ Len(posts) = MaxPosts
    /\ \E j \in 1..Len(final_results) : final_results[j].post # posts[j]

\* some two neighbours of s have equal scores
HasTie(s) == \E i \in 1..Len(s) - 1 : s[i].score = s[i + 1].score

\* C4 as amended: each sort keeps posts of equal score in the order of the
\* list it sorts: the pre-decay sort in input order, the final sort in the
\* order the pre-decay sort produced.
C4_TiesKeepSortInputOrder ==
    called =>
        /\ \A i, j \in 1..Len(scored_posts) :
              (i < j /\ scored_posts[i].score = scored_posts[j].score)
                  => InputIndex(scored_posts[i].post) < InputIndex(scored_posts[j].post)
        /\ \A i, j \in 1..Len(final_results) :
              (i < j /\ final_results[i].score = final_results[j].score)
                  => IndexOf(scored_posts, final_results[i].post)
                        < IndexOf(scored_posts, final_results[j].post)

\* C4 as claimed: at both sorts posts of equal score stand in input order.
C4_TiesKeepInputOrder ==
    called =>
        /\ \A i, j \in 1..Len(scored_posts) :
              (i < j /\ scored_posts[i].score = scored_posts[j].score)
                  => InputIndex(scored_posts[i].post) < InputIndex(scored_posts[j].post)
        /\ \A i, j \in 1..Len(final_results) :
              (i < j /\ final_results[i].score = final_results[j].score)
                  => InputIndex(final_results[i].post) < InputIndex(final_results[j].post)

\* a tie at the first sort, and a tie at the final sort between two posts
\* whose scores differed before the decay
C4_Witness ==
    /\ called
    /\ HasTie(scored_posts)
    /\ \E i \in 1..Len(final_results) - 1 :
          /\ final_results[i].score = final_results[i + 1].score
          /\ scored_posts[IndexOf(scored_posts, final_results[i].post)].score
                # scored_posts[IndexOf(scored_posts, final_results[i + 1].post)].score

PreScore(i) ==
    Add(compute_weighted_score(predicted[i]).value, video_quality_bonus(posts[i]))

\* the posts of i's author that the first, descending and stable, sort puts
\* before input post i
AheadOf(pre, i) ==
    {q \in 1..Len(posts) :
        /\ q # i
        /\ posts[q].author_id = posts[i].author_id
        /\ \/ Less(pre[i], pre[q])
           \/ pre[q] = pre[i] /\ q < i}

\* C10: every returned triple carries the predictions made for its own post,
\* its score is (weighted score + video bonus) * 0.7^k, k the number of posts
\* of the same author the first sort put before it, and the scores do not
\* increase along the returned list.
C10_TriplesAndOrder ==
    called =>
        \A pre \in {[i \in 1..Len(posts) |-> PreScore(i)]} :
            /\ \A j \in 1..Len(final_results) :
                  LET t == final_results[j]
                      i == InputIndex(t.post)
                  IN  /\ t.predictions = predicted[i]
                      /\ t.score = Mul(pre[i], Pow(DefaultDecayFactor,
                                                   Cardinality(AheadOf(pre, i))))
            /\ \A j \in 1..Len(final_results) - 1 :
                  Leq(final_results[j + 1].score, final_results[j].score)

\* a decayed post that the final sort moved below a post it had been above
C10_Witness ==
    /\ called
    /\ \E i, j \in 1..Len(scored_posts) :
          /\ i < j
          /\ IndexOf(final_results, scored_posts[j].post)
                < IndexOf(final_results, scored_posts[i].post)
          /\ final_results[IndexOf(final_results, scored_posts[i].post)].score
                # scored_posts[i].score

-----------------------------------------------------------------------------
\* video_quality_bonus on its own: a post of any shape is handed to it

\* durations run from -1 second to MaxDuration seconds in steps of
\* 1/DurationRes second
DurationRes == 2
MaxDuration == 182

Durations ==
    {None} \cup {Some(Rat(k, DurationRes)) :
                    k \in (0 - DurationRes)..(MaxDuration * DurationRes)}

VideoPosts ==
    [id : {1}, author_id : {"alice"}, has_video : BOOLEAN,
     video_duration_sec : Durations]

InitVideo ==
    /\ ACTION_WEIGHTS = ShippedWeights
    /\ author_counts = NoCounts
    /\ PipeIdle /\ DecayIdle /\ ScoreIdle
    /\ post \in VideoPosts
    /\ bonus = Zero
    /\ bonus_status = "idle"

\* bonus = video_quality_bonus(post): the function has no raise statement
VideoQualityBonus ==
    /\ bonus' = video_quality_bonus(post)
    /\ bonus_status' = "returned"
    /\ UNCHANGED <<ACTION_WEIGHTS, author_counts, pipeVars, decayVars,
                   scoreVars, post>>

NextVideo == VideoQualityBonus

SpecVideo == InitVideo /\ [][NextVideo]_vars

Seconds(k) == Rat(k, 1)

\* C3: the video bonus is never negative and is one of 0.0, 0.1, 0.3, 0.5:
\* 0.0 without a video or without a duration, 0.5 for 15 <= d <= 60, 0.3
\* for 5 <= d < 15 or 60 < d <= 180, 0.1 for any other duration; the ends
\* 15 and 60 belong to the 0.5 band, 5 and 180 to the 0.3 band.
C3_VideoBonusBands ==
    bonus_status = "returned" =>
        /\ bonus \in {Zero, Rat(1, 10), Rat(3, 10), Rat(5, 10)}
        /\ Leq(Zero, bonus)
        /\ (~post.has_video \/ post.video_duration_sec = None) => bonus = Zero
        /\ (post.has_video /\ post.video_duration_sec # None) =>
              \E d \in {post.video_duration_sec[1]} :
                 /\ (Leq(Seconds(15), d) /\ Leq(d, Seconds(60)))
                        => bonus = Rat(5, 10)
                 /\ (Leq(Seconds(5), d) /\ Less(d, Seconds(15)))
                        => bonus = Rat(3, 10)
                 /\ (Less(Seconds(60), d) /\ Leq(d, Seconds(180)))
                        => bonus = Rat(3, 10)
                 /\ (Less(d, Seconds(5)) \/ Less(Seconds(180), d))
                        => bonus = Rat(1, 10)
                 /\ d \in {Seconds(15), Seconds(60)} => bonus = Rat(5, 10)
                 /\ d \in {Seconds(5), Seconds(180)} => bonus = Rat(3, 10)

\* the bonus of a video of exactly 15 seconds has been computed
C3_Witness ==
    /\ bonus_status = "returned"
    /\ post.has_video
    /\ post.video_duration_sec = Some(Seconds(15))
    /\ bonus = Rat(5, 10)

\* C6: a post that has a video but whose duration is missing or negative
\* gets the bonus 0.0.
C6_BadDurationGivesZero ==
    (/\ bonus_status = "returned"
     /\ post.has_video
     /\ \/ post.video_duration_sec = None
        \/ Less(post.video_duration_sec[1], Zero))
        => bonus = Zero

-----------------------------------------------------------------------------
\* apply_author_diversity_decay on its own: any list of (post, score) and
\* any factor is handed to it

MaxDecayLen == 3
MaxScore == 1

Authors == {"alice", "bob"}

ScoreSamples == {Rat(k, 1) : k \in (0 - MaxScore)..MaxScore}

\* 0.7 is the default (line 130); 1.0 and the values outside (0, 1] are
\* what a caller may pass as well
Factors == {Rat(0 - 1, 1), Zero, DefaultDecayFactor, One, Rat(3, 2)}

DecayInputs ==
    UNION {[1..n -> [author_id : Authors, score : ScoreSamples]] :
              n \in 0..MaxDecayLen}

MakeScored(b) ==
    [i \in 1..Len(b) |->
        [post |-> [id |-> i, author_id |-> b[i].author_id,
                   has_video |-> FALSE, video_duration_sec |-> None],
         score |-> b[i].score]]

InitDecay ==
    /\ ACTION_WEIGHTS = ShippedWeights
    /\ author_counts = NoCounts
    /\ PipeIdle /\ VideoIdle /\ ScoreIdle
    /\ \E b \in DecayInputs : posts_with_scores = MakeScored(b)
    /\ decay_factor \in Factors
    /\ adjusted_results = <<>>
    /\ decay_status = "idle"

\* adjusted_results = apply_author_diversity_decay(posts_with_scores,
\* decay_factor): the function has no raise statement
ApplyDecay ==
    \E out \in {apply_author_diversity_decay(posts_with_scores, decay_factor)} :
        /\ adjusted_results' = out.results
        /\ author_counts' = out.counts
        /\ decay_status' = "returned"
        /\ UNCHANGED <<ACTION_WEIGHTS, pipeVars, videoVars, scoreVars,
                       posts_with_scores, decay_factor>>

NextDecay == ApplyDecay

SpecDecay == InitDecay /\ [][NextDecay]_vars

\* the number of posts of the author of post i before position i
EarlierSameAuthor(pws, i) ==
    Cardinality({j \in 1..(i - 1) :
                    pws[j].post.author_id = pws[i].post.author_id})

InUnitInterval(f) == Less(Zero, f) /\ Leq(f, One)

SortedDesc(pws) ==
    \A i \in 1..(Len(pws) - 1) : Leq(pws[i + 1].score, pws[i].score)

\* C2: the decay returns the same posts at the same positions; the score at
\* position i is the input score times factor^k, k being the number of
\* posts of the same author before i; with factor 1.0 nothing changes.
C2_DecayByEarlierSameAuthor ==
    decay_status = "returned" =>
        /\ Len(adjusted_results) = Len(posts_with_scores)
        /\ \A i \in 1..Len(posts_with_scores) :
              /\ adjusted_results[i].post = posts_with_scores[i].post
              /\ adjusted_results[i].score =
                    Mul(posts_with_scores[i].score,
                        Pow(decay_factor, EarlierSameAuthor(posts_with_scores, i)))
        /\ decay_factor = One => adjusted_results = posts_with_scores

\* a decayed list in which an author's second post comes after a post of
\* another author
C2_Witness ==
    /\ decay_status = "returned"
    /\ decay_factor = DefaultDecayFactor
    /\ Len(posts_with_scores) = 3
    /\ posts_with_scores[1].post.author_id = "alice"
    /\ posts_with_scores[2].post.author_id = "bob"
    /\ posts_with_scores[3].post.author_id = "alice"
    /\ posts_with_scores[3].score = One
    /\ adjusted_results[3].score = Rat(7, 10)

\* C7: a factor outside (0, 1] is rejected: the call does not return a
\* decayed list.
C7_FactorOutsideRangeRejected ==
    (decay_status # "idle" /\ ~InUnitInterval(decay_factor))
        => (decay_status = "raised" /\ adjusted_results = <<>>)

\* C9: for an input sorted by descending score and a factor in (0, 1], a
\* later post of an author never has a higher decayed score than an earlier
\* post of the same author.
C9_LaterSameAuthorNotAbove ==
    (/\ decay_status = "returned"
     /\ SortedDesc(posts_with_scores)
     /\ InUnitInterval(decay_factor))
        => \A i, j \in 1..Len(adjusted_results) :
              (i < j /\ adjusted_results[i].post.author_id
                          = adjusted_results[j].post.author_id)
                 => Leq(adjusted_results[j].score, adjusted_results[i].score)

-----------------------------------------------------------------------------
\* compute_weighted_score on its own: the table is the shipped one or the
\* shipped one with one entry left out, the vector any of a few samples

\* probabilities are multiples of 1/ProbRes
ProbRes == 2

Probabilities == {Rat(k, ProbRes) : k \in 0..ProbRes}

Without(a) == [k \in ActionKinds \ {a} |-> ShippedWeights[k]]

WeightTables == {ShippedWeights} \cup {Without(a) : a \in ActionKinds}

\* a vector with one probability set, or with all of them set alike
PredictionSamples ==
    {[DefaultPredictions EXCEPT ![a] = p] : a \in ActionKinds, p \in Probabilities}
        \cup {[a \in ActionKinds |-> p] : p \in Probabilities}

InitScore ==
    /\ ACTION_WEIGHTS \in WeightTables
    /\ author_counts = NoCounts
    /\ PipeIdle /\ DecayIdle /\ VideoIdle
    /\ predictions \in PredictionSamples
    /\ score = Zero
    /\ score_status = "idle"

\* score = compute_weighted_score(predictions)
ComputeWeightedScore ==
    \E out \in {compute_weighted_score(predictions)} :
        /\ score' = out.value
        /\ score_status' = IF out.raised THEN "raised" ELSE "returned"
        /\ UNCHANGED <<ACTION_WEIGHTS, author_counts, pipeVars, decayVars,
                       videoVars, predictions>>

NextScore == ComputeWeightedScore

SpecScore == InitScore /\ [][NextScore]_vars

\* C5: the score is the sum over every action kind of the prediction
\* vector of weight x probability; when the table has no weight for an
\* action kind of the vector, the call fails instead of returning a score.
C5_MissingWeightFails ==
    score_status # "idle" =>
        IF ActionKinds \subseteq DOMAIN ACTION_WEIGHTS
        THEN /\ score_status = "returned"
             /\ score = WeightedSum(ShippedWeights, predictions)
        ELSE score_status = "raised"

====
